---- MODULE Spec2Model ----
(***************************************************************************)
(* A model of BTreeMarketDepth (hftbacktest/src/depth/btreemarketdepth.rs):*)
(* two ordered maps from price tick to aggregate quantity, the cached best *)
(* ticks, the L3 order index, and every mutator of the L2MarketDepth,      *)
(* ApplySnapshot and L3MarketDepth implementations.                        *)
(*                                                                         *)
(* Prices and quantities are f64 in the source.  Here a price is an        *)
(* integer number of price units with tick_size units to the tick, and a   *)
(* quantity an integer number of quantity units with lot_size units to the *)
(* lot, so that price / tick_size and qty / lot_size are exact rationals   *)
(* and .round() (half away from zero) is computed as the source computes   *)
(* it.  Binary floating-point representation error is not modelled.        *)
(***************************************************************************)
EXTENDS Integers, Sequences, FiniteSets, TLC

\* ---------------------------------------------------------------- bounds
MaxTick == 3
MaxOrderId == 2
MaxLots == 1
MaxTs == 1
MaxBatch == 2
MaxCalls == 3

\* ------------------------------------------------- construction parameters
tick_size == 2
lot_size == 3

\* Sentinels imported from the parent module (depth/mod.rs): below and above
\* every real tick.
INVALID_MIN == -2147483647
INVALID_MAX == 2147483647

BUY_EVENT == "BUY_EVENT"
SELL_EVENT == "SELL_EVENT"

\* f64::round of the rational n / d (d > 0): nearest integer, half away from zero.
Round(n, d) ==
    IF n >= 0 THEN (2 * n + d) \div (2 * d)
    ELSE -((2 * (-n) + d) \div (2 * d))

\* ---------------------------------------------------------------- inputs
\* Prices: one unit (half a tick, which rounds up to tick 1) and the prices on
\* the tick grid, ticks 1..MaxTick.  Quantities: one unit (below half a lot,
\* zero lots) and whole lots.
Prices == {1} \cup {tick_size * t : t \in 1..MaxTick}
Ticks == {0} \cup {Round(p, tick_size) : p \in Prices} \cup {MaxTick + 1}
Qtys == {1} \cup {lot_size * k : k \in 1..MaxLots}
LotQtys == {lot_size * k : k \in 0..MaxLots}
\* Quantities that round to at least one lot: one unit short of a lot, and
\* whole lots.
FullQtys == {lot_size - 1} \cup {lot_size * k : k \in 1..MaxLots}
Timestamps == 0..MaxTs
OrderIds == 1..MaxOrderId
Sides == {"Buy", "Sell", "None"}

\* Snapshot records: a price on the tick grid above tick 1, a quantity of zero
\* lots or of one lot, and a flag word given as the set of its bits that are
\* set.
SnapEvents == [px : {tick_size * t : t \in 2..MaxTick}, qty : {1, lot_size},
               ev : SUBSET {BUY_EVENT, SELL_EVENT}]
RECURSIVE SeqsUpTo(_, _)
SeqsUpTo(S, n) ==
    IF n = 0 THEN {<<>>}
    ELSE LET shorter == SeqsUpTo(S, n - 1)
         IN  shorter \cup {Append(s, e) : s \in {x \in shorter : Len(x) = n - 1}, e \in S}
Batches == SeqsUpTo(SnapEvents, MaxBatch)

\* ------------------------------------------------------------------ state
\* The fields of BTreeMarketDepth (tick_size and lot_size never change and are
\* the definitions above), the value the last call returned, whether a call
\* has panicked (an unwrap() on None), which ends the run, and the number of
\* calls the owner of the engine has made.  script is the sequence of calls the
\* owner is to make when it follows one of the tests, and empty otherwise.
VARIABLES timestamp, bid_depth, ask_depth, best_bid_tick, best_ask_tick,
          orders, ret, panicked, calls, script

vars == <<timestamp, bid_depth, ask_depth, best_bid_tick, best_ask_tick,
          orders, ret, panicked, calls, script>>

\* The engine a handler is called on (&mut self).  A handler below is the
\* engine it leaves behind: self with the fields it assigns.
self ==
    [timestamp |-> timestamp, bid_depth |-> bid_depth, ask_depth |-> ask_depth,
     best_bid_tick |-> best_bid_tick, best_ask_tick |-> best_ask_tick,
     orders |-> orders, ret |-> ret, panicked |-> panicked]

\* ---------------------------------------------------------------- helpers
to_tick(price) == Round(price, tick_size)
is_zero_lots(qty) == Round(qty, lot_size) = 0

Max(S) == CHOOSE x \in S : \A y \in S : y <= x
Min(S) == CHOOSE x \in S : \A y \in S : x <= y

\* BTreeMap / HashMap operations.
EmptyMap == [k \in {} |-> 0]
MapRemove(m, k) == [x \in DOMAIN m \ {k} |-> m[x]]
MapPut(m, k, v) == [x \in DOMAIN m \cup {k} |-> IF x = k THEN v ELSE m[x]]
MapGetOr(m, k, default) == IF k \in DOMAIN m THEN m[k] ELSE default
LastKeyOr(m, default) == IF DOMAIN m = {} THEN default ELSE Max(DOMAIN m)
FirstKeyOr(m, default) == IF DOMAIN m = {} THEN default ELSE Min(DOMAIN m)

\* What a call hands back: the handler's name and the value it returned, or
\* the error of its Err(..), or "panic" when it unwinds instead of returning.
Returned(op, val) == [op |-> op, err |-> "None", val |-> val]
Failed(op, err) == [op |-> op, err |-> err, val |-> <<>>]

\* ------------------------------------------------------------ construction
\* BTreeMarketDepth::new.
Fresh ==
    /\ timestamp = 0
    /\ bid_depth = EmptyMap
    /\ ask_depth = EmptyMap
    /\ best_bid_tick = INVALID_MIN
    /\ best_ask_tick = INVALID_MAX
    /\ orders = EmptyMap
    /\ ret = Returned("new", <<>>)
    /\ panicked = FALSE
    /\ calls = 0

Init ==
    /\ Fresh
    /\ script = <<>>

\* ------------------------------------------------------------ L2MarketDepth
update_bid_depth(price, qty, ts) ==
    LET price_tick == to_tick(price)
        prev_best_bid_tick == LastKeyOr(bid_depth, INVALID_MIN)
        prev_qty == MapGetOr(bid_depth, prev_best_bid_tick, 0)
        depth == IF is_zero_lots(qty) THEN MapRemove(bid_depth, price_tick)
                 ELSE MapPut(bid_depth, price_tick, qty)
        best == LastKeyOr(depth, INVALID_MIN)
    IN  [self EXCEPT
            !.bid_depth = depth,
            !.best_bid_tick = best,
            !.ret = Returned("update_bid_depth",
                             <<price_tick, prev_best_bid_tick, best, prev_qty, qty, ts>>)]

\* update_ask_depth adding qty to the level instead of replacing it.
update_ask_depth_additive(price, qty, ts) ==
    LET price_tick == to_tick(price)
        prev_best_ask_tick == FirstKeyOr(bid_depth, INVALID_MAX)
        prev_qty == MapGetOr(ask_depth, prev_best_ask_tick, 0)
        depth == IF is_zero_lots(qty) THEN MapRemove(ask_depth, price_tick)
                 ELSE MapPut(ask_depth, price_tick,
                             MapGetOr(ask_depth, price_tick, 0) + qty)
        best == FirstKeyOr(depth, INVALID_MAX)
    IN  [self EXCEPT
            !.ask_depth = depth,
            !.best_ask_tick = best,
            !.ret = Returned("update_ask_depth",
                             <<price_tick, prev_best_ask_tick, best, prev_qty, qty, ts>>)]

update_ask_depth(price, qty, ts) ==
    LET price_tick == to_tick(price)
        prev_best_ask_tick == FirstKeyOr(bid_depth, INVALID_MAX)
        prev_qty == MapGetOr(ask_depth, prev_best_ask_tick, 0)
        depth == IF is_zero_lots(qty) THEN MapRemove(ask_depth, price_tick)
                 ELSE MapPut(ask_depth, price_tick, qty)
        best == FirstKeyOr(depth, INVALID_MAX)
    IN  [self EXCEPT
            !.ask_depth = depth,
            !.best_ask_tick = best,
            !.ret = Returned("update_ask_depth",
                             <<price_tick, prev_best_ask_tick, best, prev_qty, qty, ts>>)]

\* clear_depth(side, clear_upto_price) of L2MarketDepth.
L2_clear_depth(side, clear_upto_price) ==
    LET clear_upto == to_tick(clear_upto_price)
        bids == IF best_bid_tick # INVALID_MIN
                THEN [t \in {k \in DOMAIN bid_depth :
                                ~(clear_upto <= k /\ k < best_bid_tick + 1)}
                        |-> bid_depth[t]]
                ELSE bid_depth
        asks == IF best_ask_tick # INVALID_MAX
                THEN [t \in {k \in DOMAIN ask_depth :
                                ~(best_ask_tick <= k /\ k < clear_upto + 1)}
                        |-> ask_depth[t]]
                ELSE ask_depth
        cleared ==
            IF side = "Buy"
            THEN [self EXCEPT !.bid_depth = bids,
                              !.best_bid_tick = LastKeyOr(bids, INVALID_MIN)]
            ELSE IF side = "Sell"
            THEN [self EXCEPT !.ask_depth = asks,
                              !.best_ask_tick = FirstKeyOr(asks, INVALID_MAX)]
            ELSE [self EXCEPT !.bid_depth = EmptyMap, !.ask_depth = EmptyMap]
    IN  [cleared EXCEPT !.ret = Returned("L2_clear_depth", <<>>)]

\* -------------------------------------------------------------- MarketDepth
\* An f64 the accessors return: f64::NAN, or the number of price units x.
NaN == [nan |-> TRUE]
F64(x) == [nan |-> FALSE, val |-> x]
best_bid == IF best_bid_tick = INVALID_MIN THEN NaN ELSE F64(best_bid_tick * tick_size)
best_ask == IF best_ask_tick = INVALID_MAX THEN NaN ELSE F64(best_ask_tick * tick_size)
bid_qty_at_tick(price_tick) == MapGetOr(bid_depth, price_tick, 0)
ask_qty_at_tick(price_tick) == MapGetOr(ask_depth, price_tick, 0)

\* ------------------------------------------------------------ ApplySnapshot
\* The loop of apply_snapshot from row row_num on: the two maps after it.
RECURSIVE apply_rows(_, _, _, _)
apply_rows(data, row_num, bids, asks) ==
    IF row_num > Len(data) THEN <<bids, asks>>
    ELSE LET price_tick == to_tick(data[row_num].px)
             qty == data[row_num].qty
         IN  IF BUY_EVENT \in data[row_num].ev
             THEN apply_rows(data, row_num + 1, MapPut(bids, price_tick, qty), asks)
             ELSE IF SELL_EVENT \in data[row_num].ev
             THEN apply_rows(data, row_num + 1, bids, MapPut(asks, price_tick, qty))
             ELSE apply_rows(data, row_num + 1, bids, asks)

\* apply_snapshot writing the batch over the levels the maps hold, without
\* clearing them first.
apply_snapshot_merging(data) ==
    LET maps == apply_rows(data, 1, bid_depth, ask_depth)
    IN  [self EXCEPT
            !.bid_depth = maps[1],
            !.ask_depth = maps[2],
            !.best_bid_tick = LastKeyOr(maps[1], INVALID_MIN),
            !.best_ask_tick = FirstKeyOr(maps[2], INVALID_MAX),
            !.ret = Returned("apply_snapshot", <<>>)]

apply_snapshot(data) ==
    LET maps == apply_rows(data, 1, EmptyMap, EmptyMap)
    IN  [self EXCEPT
            !.bid_depth = maps[1],
            !.ask_depth = maps[2],
            !.best_bid_tick = LastKeyOr(maps[1], INVALID_MIN),
            !.best_ask_tick = FirstKeyOr(maps[2], INVALID_MAX),
            !.ret = Returned("apply_snapshot", <<>>)]

\* The emitting loops are commented out in the source: the batch is empty.
snapshot == <<>>

\* ------------------------------------------------------------ L3MarketDepth
L3Order(order_id, side, price_tick, qty, ts) ==
    [order_id |-> order_id, side |-> side, price_tick |-> price_tick,
     qty |-> qty, timestamp |-> ts]

\* add updating the side's level before it looks the id up.
add_check_after(order) ==
    LET depth_added ==
            IF order.side = "Buy"
            THEN [self EXCEPT
                    !.bid_depth = MapPut(bid_depth, order.price_tick,
                        MapGetOr(bid_depth, order.price_tick, 0) + order.qty)]
            ELSE [self EXCEPT
                    !.ask_depth = MapPut(ask_depth, order.price_tick,
                        MapGetOr(ask_depth, order.price_tick, 0) + order.qty)]
    IN  IF order.order_id \in DOMAIN orders
        THEN [ok |-> FALSE, engine |-> depth_added]
        ELSE [ok |-> TRUE,
              engine |-> [depth_added EXCEPT
                            !.orders = MapPut(orders, order.order_id, order)]]

\* BTreeMarketDepth::add: whether it returned Ok, and the engine after it.
add(order) ==
    IF order.order_id \in DOMAIN orders
    THEN [ok |-> FALSE, engine |-> self]
    ELSE [ok |-> TRUE,
          engine |->
            IF order.side = "Buy"
            THEN [self EXCEPT
                    !.orders = MapPut(orders, order.order_id, order),
                    !.bid_depth = MapPut(bid_depth, order.price_tick,
                        MapGetOr(bid_depth, order.price_tick, 0) + order.qty)]
            ELSE [self EXCEPT
                    !.orders = MapPut(orders, order.order_id, order),
                    !.ask_depth = MapPut(ask_depth, order.price_tick,
                        MapGetOr(ask_depth, order.price_tick, 0) + order.qty)]]

add_buy_order(order_id, px, qty, ts) ==
    LET price_tick == to_tick(px)
        added == add(L3Order(order_id, "Buy", price_tick, qty, ts))
        prev_best_tick == best_bid_tick
        best == IF price_tick > best_bid_tick
                THEN LastKeyOr(added.engine.bid_depth, INVALID_MIN)
                ELSE best_bid_tick
    IN  IF ~added.ok
        THEN [added.engine EXCEPT !.ret = Failed("add_buy_order", "OrderIdExist")]
        ELSE [added.engine EXCEPT
                !.best_bid_tick = best,
                !.ret = Returned("add_buy_order", <<prev_best_tick, best>>)]

\* add_sell_order refreshing the best ask under the test of add_buy_order.
add_sell_order_buy_test(order_id, px, qty, ts) ==
    LET price_tick == to_tick(px)
        added == add(L3Order(order_id, "Sell", price_tick, qty, ts))
        prev_best_tick == best_ask_tick
        best == IF price_tick > best_ask_tick
                THEN FirstKeyOr(added.engine.ask_depth, INVALID_MAX)
                ELSE best_ask_tick
    IN  IF ~added.ok
        THEN [added.engine EXCEPT !.ret = Failed("add_sell_order", "OrderIdExist")]
        ELSE [added.engine EXCEPT
                !.best_ask_tick = best,
                !.ret = Returned("add_sell_order", <<prev_best_tick, best>>)]

add_sell_order(order_id, px, qty, ts) ==
    LET price_tick == to_tick(px)
        added == add(L3Order(order_id, "Sell", price_tick, qty, ts))
        prev_best_tick == best_ask_tick
        best == IF price_tick < best_ask_tick
                THEN FirstKeyOr(added.engine.ask_depth, INVALID_MAX)
                ELSE best_ask_tick
    IN  IF ~added.ok
        THEN [added.engine EXCEPT !.ret = Failed("add_sell_order", "OrderIdExist")]
        ELSE [added.engine EXCEPT
                !.best_ask_tick = best,
                !.ret = Returned("add_sell_order", <<prev_best_tick, best>>)]

\* A call that ends in unwrap() on None: it unwinds from engine e, which holds
\* what the call had already changed, and the engine is used no further.
Panic(e, op) == [e EXCEPT !.panicked = TRUE, !.ret = Failed(op, "panic")]

\* delete_buy erasing the order's level whatever quantity is left on it.
delete_buy_erases_level(e, order) ==
    LET prev_best_tick == best_bid_tick
        removed == MapRemove(bid_depth, order.price_tick)
        best == IF order.price_tick = best_bid_tick
                THEN FirstKeyOr(removed, INVALID_MIN)
                ELSE best_bid_tick
    IN  IF order.price_tick \notin DOMAIN bid_depth
        THEN Panic(e, "delete_order")
        ELSE [e EXCEPT
                !.bid_depth = removed,
                !.best_bid_tick = best,
                !.ret = Returned("delete_order", <<"Buy", prev_best_tick, best>>)]

\* delete_order, Buy side, on engine e: self with the order already removed
\* from the index.
delete_buy(e, order) ==
    LET prev_best_tick == best_bid_tick
        depth_qty == bid_depth[order.price_tick] - order.qty
        removed == MapRemove(bid_depth, order.price_tick)
        best == IF order.price_tick = best_bid_tick
                THEN FirstKeyOr(removed, INVALID_MIN)
                ELSE best_bid_tick
    IN  IF order.price_tick \notin DOMAIN bid_depth
        THEN Panic(e, "delete_order")
        ELSE IF is_zero_lots(depth_qty)
        THEN [e EXCEPT
                !.bid_depth = removed,
                !.best_bid_tick = best,
                !.ret = Returned("delete_order", <<"Buy", prev_best_tick, best>>)]
        ELSE [e EXCEPT
                !.bid_depth = MapPut(bid_depth, order.price_tick, depth_qty),
                !.ret = Returned("delete_order",
                                 <<"Buy", prev_best_tick, best_bid_tick>>)]

\* delete_sell refreshing the best ask from the last (highest) key.
delete_sell_last(e, order) ==
    LET prev_best_tick == best_ask_tick
        depth_qty == ask_depth[order.price_tick] - order.qty
        removed == MapRemove(ask_depth, order.price_tick)
        best == IF order.price_tick = best_ask_tick
                THEN LastKeyOr(removed, INVALID_MAX)
                ELSE best_ask_tick
    IN  IF order.price_tick \notin DOMAIN ask_depth
        THEN Panic(e, "delete_order")
        ELSE IF is_zero_lots(depth_qty)
        THEN [e EXCEPT
                !.ask_depth = removed,
                !.best_ask_tick = best,
                !.ret = Returned("delete_order", <<"Sell", prev_best_tick, best>>)]
        ELSE [e EXCEPT
                !.ask_depth = MapPut(ask_depth, order.price_tick, depth_qty),
                !.ret = Returned("delete_order",
                                 <<"Sell", prev_best_tick, best_ask_tick>>)]

\* delete_order, Sell side, on engine e: self with the order already removed
\* from the index.
delete_sell(e, order) ==
    LET prev_best_tick == best_ask_tick
        depth_qty == ask_depth[order.price_tick] - order.qty
        removed == MapRemove(ask_depth, order.price_tick)
        best == IF order.price_tick = best_ask_tick
                THEN FirstKeyOr(removed, INVALID_MAX)
                ELSE best_ask_tick
    IN  IF order.price_tick \notin DOMAIN ask_depth
        THEN Panic(e, "delete_order")
        ELSE IF is_zero_lots(depth_qty)
        THEN [e EXCEPT
                !.ask_depth = removed,
                !.best_ask_tick = best,
                !.ret = Returned("delete_order", <<"Sell", prev_best_tick, best>>)]
        ELSE [e EXCEPT
                !.ask_depth = MapPut(ask_depth, order.price_tick, depth_qty),
                !.ret = Returned("delete_order",
                                 <<"Sell", prev_best_tick, best_ask_tick>>)]

\* delete_order taking a missing id for a delete that has nothing left to do.
delete_order_missing_ok ==
    [self EXCEPT !.ret = Returned("delete_order",
                                  <<"None", best_bid_tick, best_bid_tick>>)]

\* The early return of delete_order when the id is not in the index.
delete_order_not_found == [self EXCEPT !.ret = Failed("delete_order", "OrderNotFound")]

\* delete_order taking the order's qty off its level and leaving the order in
\* the index.
delete_order_keeps_id(order_id, ts) ==
    IF order_id \notin DOMAIN orders
    THEN delete_order_not_found
    ELSE LET order == orders[order_id]
         IN  IF order.side = "Buy" THEN delete_buy(self, order)
             ELSE delete_sell(self, order)

delete_order(order_id, ts) ==
    IF order_id \notin DOMAIN orders
    THEN delete_order_not_found
    ELSE LET order == orders[order_id]
             e == [self EXCEPT !.orders = MapRemove(orders, order_id)]
         IN  IF order.side = "Buy" THEN delete_buy(e, order) ELSE delete_sell(e, order)

\* modify_buy_move keeping the cached best bid when the order leaves the best
\* level and empties it.
modify_buy_move_no_refresh(order, price_tick, qty, ts) ==
    LET prev_best_tick == best_bid_tick
        depth_qty == bid_depth[order.price_tick] - order.qty
        left == IF is_zero_lots(depth_qty)
                THEN MapRemove(bid_depth, order.price_tick)
                ELSE MapPut(bid_depth, order.price_tick, depth_qty)
        best_left == best_bid_tick
        moved == MapPut(left, price_tick, MapGetOr(left, price_tick, 0) + qty)
        best == IF price_tick > best_left
                THEN LastKeyOr(moved, INVALID_MIN)
                ELSE best_left
    IN  IF order.price_tick \notin DOMAIN bid_depth
        THEN Panic(self, "modify_order")
        ELSE [self EXCEPT
                !.orders = MapPut(orders, order.order_id,
                    L3Order(order.order_id, order.side, price_tick, qty, ts)),
                !.bid_depth = moved,
                !.best_bid_tick = best,
                !.ret = Returned("modify_order", <<"Buy", prev_best_tick, best>>)]

\* modify_order, Buy side, the new tick differs from the order's tick.
modify_buy_move(order, price_tick, qty, ts) ==
    LET prev_best_tick == best_bid_tick
        depth_qty == bid_depth[order.price_tick] - order.qty
        left == IF is_zero_lots(depth_qty)
                THEN MapRemove(bid_depth, order.price_tick)
                ELSE MapPut(bid_depth, order.price_tick, depth_qty)
        best_left == IF is_zero_lots(depth_qty) /\ order.price_tick = best_bid_tick
                     THEN LastKeyOr(left, INVALID_MIN)
                     ELSE best_bid_tick
        moved == MapPut(left, price_tick, MapGetOr(left, price_tick, 0) + qty)
        best == IF price_tick > best_left
                THEN LastKeyOr(moved, INVALID_MIN)
                ELSE best_left
    IN  IF order.price_tick \notin DOMAIN bid_depth
        THEN Panic(self, "modify_order")
        ELSE [self EXCEPT
                !.orders = MapPut(orders, order.order_id,
                    L3Order(order.order_id, order.side, price_tick, qty, ts)),
                !.bid_depth = moved,
                !.best_bid_tick = best,
                !.ret = Returned("modify_order", <<"Buy", prev_best_tick, best>>)]

\* modify_buy_same adding the new qty to the level without taking the old
\* qty off.
modify_buy_same_additive(order, qty) ==
    IF order.price_tick \notin DOMAIN bid_depth
    THEN Panic(self, "modify_order")
    ELSE [self EXCEPT
            !.bid_depth = MapPut(bid_depth, order.price_tick,
                bid_depth[order.price_tick] + qty),
            !.orders = MapPut(orders, order.order_id,
                L3Order(order.order_id, order.side, order.price_tick, qty,
                        order.timestamp)),
            !.ret = Returned("modify_order", <<"Buy", best_bid_tick, best_bid_tick>>)]

\* modify_order, Buy side, the new tick is the order's tick.
modify_buy_same(order, qty) ==
    IF order.price_tick \notin DOMAIN bid_depth
    THEN Panic(self, "modify_order")
    ELSE [self EXCEPT
            !.bid_depth = MapPut(bid_depth, order.price_tick,
                bid_depth[order.price_tick] + (qty - order.qty)),
            !.orders = MapPut(orders, order.order_id,
                L3Order(order.order_id, order.side, order.price_tick, qty,
                        order.timestamp)),
            !.ret = Returned("modify_order", <<"Buy", best_bid_tick, best_bid_tick>>)]

\* modify_sell_move leaving the order's timestamp as it was.
modify_sell_move_stale_ts(order, price_tick, qty, ts) ==
    LET prev_best_tick == best_ask_tick
        depth_qty == ask_depth[order.price_tick] - order.qty
        left == IF is_zero_lots(depth_qty)
                THEN MapRemove(ask_depth, order.price_tick)
                ELSE MapPut(ask_depth, order.price_tick, depth_qty)
        best_left == IF is_zero_lots(depth_qty) /\ order.price_tick = best_ask_tick
                     THEN FirstKeyOr(left, INVALID_MAX)
                     ELSE best_ask_tick
        moved == MapPut(left, price_tick, MapGetOr(left, price_tick, 0) + qty)
        best == IF price_tick < best_left
                THEN FirstKeyOr(moved, INVALID_MAX)
                ELSE best_left
    IN  IF order.price_tick \notin DOMAIN ask_depth
        THEN Panic(self, "modify_order")
        ELSE [self EXCEPT
                !.orders = MapPut(orders, order.order_id,
                    L3Order(order.order_id, order.side, price_tick, qty,
                            order.timestamp)),
                !.ask_depth = moved,
                !.best_ask_tick = best,
                !.ret = Returned("modify_order", <<"Sell", prev_best_tick, best>>)]

\* modify_order, Sell side, the new tick differs from the order's tick.
modify_sell_move(order, price_tick, qty, ts) ==
    LET prev_best_tick == best_ask_tick
        depth_qty == ask_depth[order.price_tick] - order.qty
        left == IF is_zero_lots(depth_qty)
                THEN MapRemove(ask_depth, order.price_tick)
                ELSE MapPut(ask_depth, order.price_tick, depth_qty)
        best_left == IF is_zero_lots(depth_qty) /\ order.price_tick = best_ask_tick
                     THEN FirstKeyOr(left, INVALID_MAX)
                     ELSE best_ask_tick
        moved == MapPut(left, price_tick, MapGetOr(left, price_tick, 0) + qty)
        best == IF price_tick < best_left
                THEN FirstKeyOr(moved, INVALID_MAX)
                ELSE best_left
    IN  IF order.price_tick \notin DOMAIN ask_depth
        THEN Panic(self, "modify_order")
        ELSE [self EXCEPT
                !.orders = MapPut(orders, order.order_id,
                    L3Order(order.order_id, order.side, price_tick, qty, ts)),
                !.ask_depth = moved,
                !.best_ask_tick = best,
                !.ret = Returned("modify_order", <<"Sell", prev_best_tick, best>>)]

\* modify_sell_same setting the level to the new qty, as an L2 update would.
modify_sell_same_replace(order, qty) ==
    IF order.price_tick \notin DOMAIN ask_depth
    THEN Panic(self, "modify_order")
    ELSE [self EXCEPT
            !.ask_depth = MapPut(ask_depth, order.price_tick, qty),
            !.orders = MapPut(orders, order.order_id,
                L3Order(order.order_id, order.side, order.price_tick, qty,
                        order.timestamp)),
            !.ret = Returned("modify_order", <<"Sell", best_ask_tick, best_ask_tick>>)]

\* modify_order, Sell side, the new tick is the order's tick.
modify_sell_same(order, qty) ==
    IF order.price_tick \notin DOMAIN ask_depth
    THEN Panic(self, "modify_order")
    ELSE [self EXCEPT
            !.ask_depth = MapPut(ask_depth, order.price_tick,
                ask_depth[order.price_tick] + (qty - order.qty)),
            !.orders = MapPut(orders, order.order_id,
                L3Order(order.order_id, order.side, order.price_tick, qty,
                        order.timestamp)),
            !.ret = Returned("modify_order", <<"Sell", best_ask_tick, best_ask_tick>>)]

\* The early return of modify_order when the id is not in the index.
modify_order_not_found == [self EXCEPT !.ret = Failed("modify_order", "OrderNotFound")]

modify_order(order_id, px, qty, ts) ==
    IF order_id \notin DOMAIN orders
    THEN modify_order_not_found
    ELSE LET order == orders[order_id]
             price_tick == to_tick(px)
         IN  IF order.side = "Buy"
             THEN IF price_tick # order.price_tick
                  THEN modify_buy_move(order, price_tick, qty, ts)
                  ELSE modify_buy_same(order, qty)
             ELSE IF price_tick # order.price_tick
                  THEN modify_sell_move(order, price_tick, qty, ts)
                  ELSE modify_sell_same(order, qty)

\* L3_clear_depth emptying the order index along with the maps it clears.
L3_clear_depth_with_index(side) ==
    LET cleared ==
            IF side = "Buy" THEN [self EXCEPT !.bid_depth = EmptyMap]
            ELSE IF side = "Sell" THEN [self EXCEPT !.ask_depth = EmptyMap]
            ELSE [self EXCEPT !.bid_depth = EmptyMap, !.ask_depth = EmptyMap]
    IN  [cleared EXCEPT !.orders = EmptyMap,
                        !.ret = Returned("L3_clear_depth", <<>>)]

\* clear_depth(side) of L3MarketDepth.
L3_clear_depth(side) ==
    LET cleared ==
            IF side = "Buy" THEN [self EXCEPT !.bid_depth = EmptyMap]
            ELSE IF side = "Sell" THEN [self EXCEPT !.ask_depth = EmptyMap]
            ELSE [self EXCEPT !.bid_depth = EmptyMap, !.ask_depth = EmptyMap]
    IN  [cleared EXCEPT !.ret = Returned("L3_clear_depth", <<>>)]

\* ---------------------------------------------------------- specifications
\* A call on the engine leaves engine e behind.  No call is made after a
\* panic.
Leaves(e) ==
    /\ ~panicked
    /\ timestamp' = e.timestamp
    /\ bid_depth' = e.bid_depth
    /\ ask_depth' = e.ask_depth
    /\ best_bid_tick' = e.best_bid_tick
    /\ best_ask_tick' = e.best_ask_tick
    /\ orders' = e.orders
    /\ ret' = e.ret
    /\ panicked' = e.panicked

\* The single owner of the engine makes one call after another, up to
\* MaxCalls of them.
Call(e) ==
    /\ calls < MaxCalls
    /\ calls' = calls + 1
    /\ UNCHANGED script
    /\ Leaves(e)

UpdateBidDepth ==
    \E price \in Prices, qty \in Qtys, ts \in Timestamps :
        Call(update_bid_depth(price, qty, ts))
UpdateAskDepth ==
    \E price \in Prices, qty \in Qtys, ts \in Timestamps :
        Call(update_ask_depth(price, qty, ts))
L2ClearDepth ==
    \E side \in Sides, price \in Prices : Call(L2_clear_depth(side, price))
\* A batch from the feed, or the engine's own snapshot() fed back to it.
ApplySnapshot ==
    \E data \in Batches \cup {snapshot} : Call(apply_snapshot(data))
AddBuyOrder ==
    \E id \in OrderIds, px \in Prices, qty \in Qtys, ts \in Timestamps :
        Call(add_buy_order(id, px, qty, ts))
AddSellOrder ==
    \E id \in OrderIds, px \in Prices, qty \in Qtys, ts \in Timestamps :
        Call(add_sell_order(id, px, qty, ts))
DeleteOrder ==
    \E id \in OrderIds, ts \in Timestamps : Call(delete_order(id, ts))
ModifyOrder ==
    \E id \in OrderIds, px \in Prices, qty \in Qtys, ts \in Timestamps :
        Call(modify_order(id, px, qty, ts))
L3ClearDepth ==
    \E side \in Sides : Call(L3_clear_depth(side))

Next ==
    \/ UpdateBidDepth
    \/ UpdateAskDepth
    \/ L2ClearDepth
    \/ ApplySnapshot
    \/ AddBuyOrder
    \/ AddSellOrder
    \/ DeleteOrder
    \/ ModifyOrder
    \/ L3ClearDepth

\* Every operation of the engine, any arguments.
Spec == Init /\ [][Next]_vars

\* A call of a run of any length: the calls are not counted.
CallL3(e) ==
    /\ UNCHANGED <<calls, script>>
    /\ Leaves(e)

AddBuyOrderL3 ==
    \E id \in OrderIds, px \in Prices, qty \in LotQtys, ts \in Timestamps :
        CallL3(add_buy_order(id, px, qty, ts))
AddSellOrderL3 ==
    \E id \in OrderIds, px \in Prices, qty \in LotQtys, ts \in Timestamps :
        CallL3(add_sell_order(id, px, qty, ts))
DeleteOrderL3 ==
    \E id \in OrderIds, ts \in Timestamps : CallL3(delete_order(id, ts))
ModifyOrderL3 ==
    \E id \in OrderIds, px \in Prices, qty \in LotQtys, ts \in Timestamps :
        CallL3(modify_order(id, px, qty, ts))

NextL3 ==
    \/ AddBuyOrderL3
    \/ AddSellOrderL3
    \/ DeleteOrderL3
    \/ ModifyOrderL3

\* Only the L3 order mutators, quantities in whole lots, any number of calls.
SpecL3 == Init /\ [][NextL3]_vars

AddBuyOrderFull ==
    \E id \in OrderIds, px \in Prices, qty \in FullQtys, ts \in Timestamps :
        CallL3(add_buy_order(id, px, qty, ts))
AddSellOrderFull ==
    \E id \in OrderIds, px \in Prices, qty \in FullQtys, ts \in Timestamps :
        CallL3(add_sell_order(id, px, qty, ts))
DeleteOrderFull ==
    \E id \in OrderIds, ts \in Timestamps : CallL3(delete_order(id, ts))
ModifyOrderFull ==
    \E id \in OrderIds, px \in Prices, qty \in FullQtys, ts \in Timestamps :
        CallL3(modify_order(id, px, qty, ts))

NextFull ==
    \/ AddBuyOrderFull
    \/ AddSellOrderFull
    \/ DeleteOrderFull
    \/ ModifyOrderFull

\* Only the L3 order mutators, every quantity at least one lot after rounding,
\* any number of calls.
SpecFull == Init /\ [][NextFull]_vars

\* The calls of test_l3_modify_buy_order, engine new(0.1, 0.001): a price is
\* given by its tick of 0.1 and a quantity by its lots of 0.001.
AddBuy(order_id, tick, lots) ==
    [op |-> "add_buy_order", order_id |-> order_id, px |-> tick_size * tick,
     qty |-> lot_size * lots, ts |-> 0]
Modify(order_id, tick, lots) ==
    [op |-> "modify_order", order_id |-> order_id, px |-> tick_size * tick,
     qty |-> lot_size * lots, ts |-> 0]
Delete(order_id) ==
    [op |-> "delete_order", order_id |-> order_id, px |-> 0, qty |-> 0, ts |-> 0]

test_l3_modify_buy_order ==
    << AddBuy(1, 5001, 1), AddBuy(2, 5003, 5), AddBuy(3, 5001, 5),
       AddBuy(4, 5005, 5), Modify(10, 5005, 1), Modify(2, 5005, 1),
       Modify(2, 5007, 2), Modify(2, 5006, 2), Delete(4), Modify(2, 5000, 2) >>

\* The sequences a script gives when any of its calls are left out.
RECURSIVE SubSeqs(_)
SubSeqs(s) ==
    IF s = <<>> THEN {<<>>}
    ELSE LET rest == SubSeqs(Tail(s))
         IN  rest \cup {<<Head(s)>> \o r : r \in rest}

\* The engine the call c of a script leaves behind.
Run(c) ==
    CASE c.op = "add_buy_order" -> add_buy_order(c.order_id, c.px, c.qty, c.ts)
      [] c.op = "modify_order" -> modify_order(c.order_id, c.px, c.qty, c.ts)
      [] c.op = "delete_order" -> delete_order(c.order_id, c.ts)

\* The owner makes the next call of its script.
RunScript ==
    /\ calls < Len(script)
    /\ calls' = calls + 1
    /\ UNCHANGED script
    /\ Leaves(Run(script[calls + 1]))

InitS5 ==
    /\ Fresh
    /\ script \in SubSeqs(test_l3_modify_buy_order)

NextS5 == RunScript

\* A fresh engine taken through the calls of test_l3_modify_buy_order, or
\* through those calls with some of them left out.
SpecS5 == InitS5 /\ [][NextS5]_vars

\* ------------------------------------------------------------- properties
\* What the claims compare an engine with.
SameEngine(e) ==
    /\ e.bid_depth = bid_depth
    /\ e.ask_depth = ask_depth
    /\ e.best_bid_tick = best_bid_tick
    /\ e.best_ask_tick = best_ask_tick
    /\ e.orders = orders

Lots(qty) == Round(qty, lot_size)

\* C1: after any operation best_bid_tick is the maximum key of bid_depth, or
\* INVALID_MIN when bid_depth is empty, and best_ask_tick is the minimum key
\* of ask_depth, or INVALID_MAX when ask_depth is empty.
C1_BestTicksAreTheMapsBests ==
    ~panicked =>
        /\ best_bid_tick = LastKeyOr(bid_depth, INVALID_MIN)
        /\ best_ask_tick = FirstKeyOr(ask_depth, INVALID_MAX)

\* C2: delete_order of a buy order whose level it empties, that level being
\* the cached best bid and the cache being the maximum bid key, returns as
\* new_best_tick, and leaves in best_bid_tick, the highest remaining bid tick,
\* or INVALID_MIN when no bid level remains.
C2_DeleteBuyAtBestRefreshesToHighest ==
    ~panicked =>
        \A id \in DOMAIN orders, ts \in Timestamps :
            LET order == orders[id]
                out == delete_order(id, ts)
                remaining == MapRemove(bid_depth, order.price_tick)
            IN  ( /\ order.side = "Buy"
                  /\ order.price_tick \in DOMAIN bid_depth
                  /\ is_zero_lots(bid_depth[order.price_tick] - order.qty)
                  /\ order.price_tick = best_bid_tick
                  /\ best_bid_tick = LastKeyOr(bid_depth, INVALID_MIN) )
                => /\ out.ret = Returned("delete_order",
                        <<"Buy", best_bid_tick, LastKeyOr(remaining, INVALID_MIN)>>)
                   /\ out.best_bid_tick = LastKeyOr(remaining, INVALID_MIN)
                   /\ out.bid_depth = remaining

\* C3: delete_order of a sell order whose level it empties, that level being
\* the cached best ask and the cache being the minimum ask key, returns as
\* new_best_tick, and leaves in best_ask_tick, the lowest remaining ask tick,
\* or INVALID_MAX when no ask level remains.
C3_DeleteSellAtBestRefreshesToLowest ==
    ~panicked =>
        \A id \in DOMAIN orders, ts \in Timestamps :
            LET order == orders[id]
                out == delete_order(id, ts)
                remaining == MapRemove(ask_depth, order.price_tick)
            IN  ( /\ order.side = "Sell"
                  /\ order.price_tick \in DOMAIN ask_depth
                  /\ is_zero_lots(ask_depth[order.price_tick] - order.qty)
                  /\ order.price_tick = best_ask_tick
                  /\ best_ask_tick = FirstKeyOr(ask_depth, INVALID_MAX) )
                => /\ out.ret = Returned("delete_order",
                        <<"Sell", best_ask_tick, FirstKeyOr(remaining, INVALID_MAX)>>)
                   /\ out.best_ask_tick = FirstKeyOr(remaining, INVALID_MAX)
                   /\ out.ask_depth = remaining

\* C3 happens: a delete_order has emptied the best ask level with two ask
\* levels remaining above it, and the best ask moved up to the lower of them.
C3_Witness ==
    /\ ret.op = "delete_order"
    /\ ret.err = "None"
    /\ ret.val[1] = "Sell"
    /\ Cardinality(DOMAIN ask_depth) >= 2
    /\ ret.val[2] \notin DOMAIN ask_depth
    /\ ret.val[2] < ret.val[3]
    /\ ret.val[3] = best_ask_tick
    /\ best_ask_tick = FirstKeyOr(ask_depth, INVALID_MAX)

\* C4: add_buy_order or add_sell_order with an order_id that is in the index
\* returns OrderIdExist and leaves both maps, both best ticks and the index
\* (the record of that id included) as they were.
C4_AddExistingIdChangesNothing ==
    ~panicked =>
        \A id \in DOMAIN orders, px \in Prices, qty \in Qtys, ts \in Timestamps :
            /\ add_buy_order(id, px, qty, ts).ret = Failed("add_buy_order", "OrderIdExist")
            /\ SameEngine(add_buy_order(id, px, qty, ts))
            /\ ~add_buy_order(id, px, qty, ts).panicked
            /\ add_sell_order(id, px, qty, ts).ret = Failed("add_sell_order", "OrderIdExist")
            /\ SameEngine(add_sell_order(id, px, qty, ts))
            /\ ~add_sell_order(id, px, qty, ts).panicked

\* C4 happens: an add has just been refused with OrderIdExist.
C4_Witness ==
    /\ ret.err = "OrderIdExist"
    /\ orders # EmptyMap
    /\ bid_depth # EmptyMap

\* C5: delete_order or modify_order with an order_id that is not in the index
\* returns OrderNotFound and leaves both maps, both best ticks and the index
\* as they were.
C5_MissingIdChangesNothing ==
    ~panicked =>
        \A id \in OrderIds \ DOMAIN orders, ts \in Timestamps :
            /\ delete_order(id, ts).ret = Failed("delete_order", "OrderNotFound")
            /\ SameEngine(delete_order(id, ts))
            /\ ~delete_order(id, ts).panicked
            /\ \A px \in Prices, qty \in Qtys :
                /\ modify_order(id, px, qty, ts).ret
                      = Failed("modify_order", "OrderNotFound")
                /\ SameEngine(modify_order(id, px, qty, ts))
                /\ ~modify_order(id, px, qty, ts).panicked

\* C5 happens: a delete_order has just been refused with OrderNotFound while
\* another order rests in the book.
C5_Witness ==
    /\ ret = Failed("delete_order", "OrderNotFound")
    /\ orders # EmptyMap
    /\ ask_depth # EmptyMap

\* The sum of qty over the orders of ids that rest on side at tick t.
RECURSIVE SumQty(_, _, _)
SumQty(ids, side, t) ==
    IF ids = {} THEN 0
    ELSE LET id == CHOOSE x \in ids : TRUE
         IN  (IF orders[id].side = side /\ orders[id].price_tick = t
              THEN orders[id].qty ELSE 0)
             + SumQty(ids \ {id}, side, t)

\* C6: after any sequence of add_buy_order, add_sell_order, delete_order and
\* modify_order with quantities in whole lots, bid_qty_at_tick(t) and
\* ask_qty_at_tick(t) are the sums of qty over the indexed orders of that side
\* at tick t, for every tick t.
C6_LevelIsSumOfOrders ==
    \A t \in Ticks :
        /\ bid_qty_at_tick(t) = SumQty(DOMAIN orders, "Buy", t)
        /\ ask_qty_at_tick(t) = SumQty(DOMAIN orders, "Sell", t)

\* C6 happens: a modify_order has returned with two buy orders of a lot or
\* more resting at one tick.
C6_Witness ==
    /\ ret.op = "modify_order"
    /\ ret.err = "None"
    /\ \E i, j \in DOMAIN orders :
          /\ i # j
          /\ orders[i].side = "Buy" /\ orders[j].side = "Buy"
          /\ orders[i].price_tick = orders[j].price_tick
          /\ orders[i].qty > 0 /\ orders[j].qty > 0
          /\ bid_qty_at_tick(orders[i].price_tick) = orders[i].qty + orders[j].qty

\* C7: after any sequence of operations with non-negative quantities every
\* level of bid_depth and ask_depth rounds to at least one lot.
C7_NoLevelOfZeroLots ==
    ~panicked =>
        /\ \A t \in DOMAIN bid_depth : Lots(bid_depth[t]) >= 1
        /\ \A t \in DOMAIN ask_depth : Lots(ask_depth[t]) >= 1

\* C8: with non-negative quantities every call returns: no call panics.
C8_NoCallPanics ==
    /\ ~panicked
    /\ ret.err \in {"None", "OrderIdExist", "OrderNotFound"}

\* C9: apply_snapshot of the batch snapshot() returns leaves bid_depth,
\* ask_depth and both best ticks as they are in the engine that produced the
\* batch.
C9_SnapshotRoundTrip ==
    ~panicked =>
        LET out == apply_snapshot(snapshot)
        IN  /\ out.bid_depth = bid_depth
            /\ out.ask_depth = ask_depth
            /\ out.best_bid_tick = best_bid_tick
            /\ out.best_ask_tick = best_ask_tick

\* The levels of depth map after other than the one at tick t are those of
\* map before.
SameButAt(after, before, t) ==
    /\ DOMAIN after \ {t} = DOMAIN before \ {t}
    /\ \A k \in DOMAIN before \ {t} : after[k] = before[k]

\* C10: update_bid_depth(price, qty, ts) leaves no bid level at to_tick(price)
\* when qty rounds to zero lots and otherwise leaves exactly qty there; every
\* other bid level, ask_depth, best_ask_tick and the index are as before, and
\* best_bid_tick is the maximum bid key or INVALID_MIN.  update_ask_depth
\* likewise, sides exchanged.
C10_L2UpdateReplacesTheLevel ==
    ~panicked =>
        \A price \in Prices, qty \in Qtys, ts \in Timestamps :
            LET t == to_tick(price)
                bid == update_bid_depth(price, qty, ts)
                ask == update_ask_depth(price, qty, ts)
            IN  /\ IF is_zero_lots(qty) THEN t \notin DOMAIN bid.bid_depth
                   ELSE t \in DOMAIN bid.bid_depth /\ bid.bid_depth[t] = qty
                /\ SameButAt(bid.bid_depth, bid_depth, t)
                /\ bid.ask_depth = ask_depth
                /\ bid.best_ask_tick = best_ask_tick
                /\ bid.orders = orders
                /\ bid.best_bid_tick = LastKeyOr(bid.bid_depth, INVALID_MIN)
                /\ IF is_zero_lots(qty) THEN t \notin DOMAIN ask.ask_depth
                   ELSE t \in DOMAIN ask.ask_depth /\ ask.ask_depth[t] = qty
                /\ SameButAt(ask.ask_depth, ask_depth, t)
                /\ ask.bid_depth = bid_depth
                /\ ask.best_bid_tick = best_bid_tick
                /\ ask.orders = orders
                /\ ask.best_ask_tick = FirstKeyOr(ask.ask_depth, INVALID_MAX)

\* C10 happens: an update_ask_depth has replaced the quantity of the best ask
\* level, which held another quantity, while an order rests in the book.
C10_Witness ==
    /\ ret.op = "update_ask_depth"
    /\ orders # EmptyMap
    /\ ret.val[1] = ret.val[3]
    /\ ret.val[1] \in DOMAIN ask_depth
    /\ ask_depth[ret.val[1]] = ret.val[5]
    /\ \E id \in DOMAIN orders :
          /\ orders[id].side = "Sell"
          /\ orders[id].price_tick = ret.val[1]
          /\ orders[id].qty # ret.val[5]

\* C11: update_bid_depth returns as prev_best_tick the maximum key bid_depth
\* had before the call (INVALID_MIN if it was empty), update_ask_depth the
\* minimum key ask_depth had (INVALID_MAX if it was empty); prev_qty is the
\* quantity that rested at that tick on the same side, and new_best_tick the
\* side's best after the call.
C11_L2UpdateReportsOwnSidePrevBest ==
    ~panicked =>
        \A price \in Prices, qty \in Qtys, ts \in Timestamps :
            LET bid == update_bid_depth(price, qty, ts)
                ask == update_ask_depth(price, qty, ts)
                prev_bid == LastKeyOr(bid_depth, INVALID_MIN)
                prev_ask == FirstKeyOr(ask_depth, INVALID_MAX)
            IN  /\ bid.ret.val[2] = prev_bid
                /\ bid.ret.val[4] = MapGetOr(bid_depth, prev_bid, 0)
                /\ bid.ret.val[3] = LastKeyOr(bid.bid_depth, INVALID_MIN)
                /\ ask.ret.val[2] = prev_ask
                /\ ask.ret.val[4] = MapGetOr(ask_depth, prev_ask, 0)
                /\ ask.ret.val[3] = FirstKeyOr(ask.ask_depth, INVALID_MAX)

\* C12: update_bid_depth (update_ask_depth) with a quantity of zero lots at a
\* tick that has no bid (ask) level leaves bid_depth, ask_depth, both best
\* ticks and the index as they were.
C12_ZeroUpdateOfAbsentTickChangesNothing ==
    ~panicked =>
        \A price \in Prices, qty \in Qtys, ts \in Timestamps :
            is_zero_lots(qty) =>
                /\ to_tick(price) \notin DOMAIN bid_depth
                      => SameEngine(update_bid_depth(price, qty, ts))
                /\ to_tick(price) \notin DOMAIN ask_depth
                      => SameEngine(update_ask_depth(price, qty, ts))

\* The states in which the owner of the engine makes a further call.
CanCall == ~panicked /\ calls < MaxCalls

\* The map a batch leaves on one side, given the rows of the batch that belong
\* to that side: the ticks of those rows, each with the qty of the last of them
\* at that tick.
RowTicks(data, rows) == {to_tick(data[i].px) : i \in rows}
LastRowQty(data, rows, t) ==
    data[Max({i \in rows : to_tick(data[i].px) = t})].qty
IsMapOfRows(depth, data, rows) ==
    /\ DOMAIN depth = RowTicks(data, rows)
    /\ \A t \in DOMAIN depth : depth[t] = LastRowQty(data, rows, t)

\* apply_snapshot(data) leaves the maps of the given bid rows and ask rows,
\* both best ticks at the maps' bests, and the index as it was.
SnapshotReplaces(data, bid_rows, ask_rows) ==
    LET out == apply_snapshot(data)
    IN  /\ IsMapOfRows(out.bid_depth, data, bid_rows)
        /\ IsMapOfRows(out.ask_depth, data, ask_rows)
        /\ out.best_bid_tick = LastKeyOr(out.bid_depth, INVALID_MIN)
        /\ out.best_ask_tick = FirstKeyOr(out.ask_depth, INVALID_MAX)
        /\ out.orders = orders
        /\ ~out.panicked

\* C13 as stated: apply_snapshot replaces both maps: bid_depth holds exactly
\* the ticks of the records with the BUY_EVENT bit and ask_depth exactly the
\* ticks of the records with the SELL_EVENT bit, each with the qty of the last
\* such record at the tick; no earlier level survives, the best ticks are the
\* maps' bests or the sentinels, and the index is unchanged.
C13_SnapshotRoutesByEitherBit ==
    CanCall =>
        \A data \in Batches :
            SnapshotReplaces(data,
                {i \in DOMAIN data : BUY_EVENT \in data[i].ev},
                {i \in DOMAIN data : SELL_EVENT \in data[i].ev})

\* C13 amended: as stated, except that ask_depth holds exactly the ticks of
\* the records with the SELL_EVENT bit and without the BUY_EVENT bit: a record
\* with both bits goes to bid_depth only.
C13_SnapshotRoutesBuyBitFirst ==
    CanCall =>
        \A data \in Batches :
            SnapshotReplaces(data,
                {i \in DOMAIN data : BUY_EVENT \in data[i].ev},
                {i \in DOMAIN data : SELL_EVENT \in data[i].ev
                                        /\ BUY_EVENT \notin data[i].ev})

\* C13 happens: an apply_snapshot has left levels on both sides and wiped the
\* level of an order that is still in the index.
C13_Witness ==
    /\ ret.op = "apply_snapshot"
    /\ bid_depth # EmptyMap
    /\ ask_depth # EmptyMap
    /\ \E id \in DOMAIN orders :
          /\ orders[id].price_tick \notin DOMAIN bid_depth
          /\ orders[id].price_tick \notin DOMAIN ask_depth

\* C14: best_bid() is NaN exactly when bid_depth is empty and otherwise the
\* price of the highest bid tick that has a level; best_ask() is NaN exactly
\* when ask_depth is empty and otherwise the price of the lowest ask tick that
\* has a level.
C14_BestPriceIsNaNIffSideEmpty ==
    ~panicked =>
        /\ (best_bid = NaN) <=> (bid_depth = EmptyMap)
        /\ bid_depth # EmptyMap => best_bid = F64(Max(DOMAIN bid_depth) * tick_size)
        /\ (best_ask = NaN) <=> (ask_depth = EmptyMap)
        /\ ask_depth # EmptyMap => best_ask = F64(Min(DOMAIN ask_depth) * tick_size)

\* The larger and the smaller of two ticks.
Max2(a, b) == IF a >= b THEN a ELSE b
Min2(a, b) == IF a <= b THEN a ELSE b

\* C15: add_buy_order with an id that is not in the index, called where
\* best_bid_tick is the maximum bid key (INVALID_MIN when there is none), puts
\* the order in the index, raises the level at to_tick(px) by qty (creating
\* it if absent), returns (best_bid_tick before, max(that, to_tick(px))) and
\* leaves best_bid_tick at the maximum bid key.  add_sell_order likewise with
\* the minimum and INVALID_MAX.
C15_AddOrderRaisesLevelAndBest ==
    ~panicked =>
        \A id \in OrderIds \ DOMAIN orders, px \in Prices, qty \in Qtys,
           ts \in Timestamps :
            LET t == to_tick(px)
                buy == add_buy_order(id, px, qty, ts)
                sell == add_sell_order(id, px, qty, ts)
            IN  /\ best_bid_tick = LastKeyOr(bid_depth, INVALID_MIN) =>
                    /\ buy.orders = MapPut(orders, id, L3Order(id, "Buy", t, qty, ts))
                    /\ t \in DOMAIN buy.bid_depth
                    /\ buy.bid_depth[t] = MapGetOr(bid_depth, t, 0) + qty
                    /\ SameButAt(buy.bid_depth, bid_depth, t)
                    /\ buy.ret = Returned("add_buy_order",
                                          <<best_bid_tick, Max2(best_bid_tick, t)>>)
                    /\ buy.best_bid_tick = LastKeyOr(buy.bid_depth, INVALID_MIN)
                /\ best_ask_tick = FirstKeyOr(ask_depth, INVALID_MAX) =>
                    /\ sell.orders = MapPut(orders, id, L3Order(id, "Sell", t, qty, ts))
                    /\ t \in DOMAIN sell.ask_depth
                    /\ sell.ask_depth[t] = MapGetOr(ask_depth, t, 0) + qty
                    /\ SameButAt(sell.ask_depth, ask_depth, t)
                    /\ sell.ret = Returned("add_sell_order",
                                           <<best_ask_tick, Min2(best_ask_tick, t)>>)
                    /\ sell.best_ask_tick = FirstKeyOr(sell.ask_depth, INVALID_MAX)

\* C15 happens: an add_sell_order has joined a level that held quantity,
\* below which no ask rests, and returned the best ask unchanged.
C15_Witness ==
    /\ ret.op = "add_sell_order"
    /\ ret.err = "None"
    /\ ret.val[1] = ret.val[2]
    /\ best_ask_tick = ret.val[2]
    /\ best_ask_tick = FirstKeyOr(ask_depth, INVALID_MAX)
    /\ Cardinality(DOMAIN ask_depth) >= 2
    /\ \E id \in DOMAIN orders :
          /\ orders[id].side = "Sell"
          /\ orders[id].price_tick \in DOMAIN ask_depth
          /\ ask_depth[orders[id].price_tick] > orders[id].qty

\* Depth map depth after order leaves its level (erased if what is left rounds
\* to zero lots) and qty joins the level at tick t (created if absent).
MovedLevels(depth, order, t, qty) ==
    LET depth_qty == depth[order.price_tick] - order.qty
        left == IF is_zero_lots(depth_qty)
                THEN MapRemove(depth, order.price_tick)
                ELSE MapPut(depth, order.price_tick, depth_qty)
    IN  MapPut(left, t, MapGetOr(left, t, 0) + qty)

\* C16: a modify_order that returns Ok and moves the order to another tick,
\* called where the cached best of the order's side is the best of its map,
\* takes the old qty off the old level (erased if it rounds to zero lots),
\* stores the new tick, qty and timestamp on the order, adds the new qty to the
\* new level (created if absent), returns (side, best before, best after) and
\* leaves the cached best at the best of the map.
C16_ModifyToOtherTickMovesTheQty ==
    ~panicked =>
        \A id \in DOMAIN orders, px \in Prices, qty \in Qtys, ts \in Timestamps :
            LET order == orders[id]
                t == to_tick(px)
                out == modify_order(id, px, qty, ts)
                stored == MapPut(orders, id, L3Order(id, order.side, t, qty, ts))
            IN  (t # order.price_tick /\ ~out.panicked) =>
                    /\ ( /\ order.side = "Buy"
                         /\ best_bid_tick = LastKeyOr(bid_depth, INVALID_MIN) ) =>
                            /\ out.bid_depth = MovedLevels(bid_depth, order, t, qty)
                            /\ out.orders = stored
                            /\ out.best_bid_tick = LastKeyOr(out.bid_depth, INVALID_MIN)
                            /\ out.ret = Returned("modify_order",
                                  <<"Buy", best_bid_tick, out.best_bid_tick>>)
                    /\ ( /\ order.side = "Sell"
                         /\ best_ask_tick = FirstKeyOr(ask_depth, INVALID_MAX) ) =>
                            /\ out.ask_depth = MovedLevels(ask_depth, order, t, qty)
                            /\ out.orders = stored
                            /\ out.best_ask_tick = FirstKeyOr(out.ask_depth, INVALID_MAX)
                            /\ out.ret = Returned("modify_order",
                                  <<"Sell", best_ask_tick, out.best_ask_tick>>)

\* C16 happens: a modify_order has moved the sell order at the best ask to a
\* tick above the remaining best ask, with a new timestamp, and the best ask
\* is the remaining one.
C16_Witness ==
    /\ ret.op = "modify_order"
    /\ ret.err = "None"
    /\ ret.val[1] = "Sell"
    /\ ret.val[2] < ret.val[3]
    /\ ret.val[2] \notin DOMAIN ask_depth
    /\ best_ask_tick = ret.val[3]
    /\ best_ask_tick = FirstKeyOr(ask_depth, INVALID_MAX)
    /\ \E id \in DOMAIN orders :
          /\ orders[id].side = "Sell"
          /\ orders[id].price_tick > best_ask_tick
          /\ orders[id].timestamp > 0

\* C17: a modify_order that returns Ok and keeps the order's tick changes the
\* level at that tick by new_qty - old_qty, stores new_qty on the order,
\* leaves every other level and both cached best ticks as they were, and
\* returns (side, b, b), b the cached best tick of the side.
C17_ModifySameTickAdjustsTheLevel ==
    ~panicked =>
        \A id \in DOMAIN orders, px \in Prices, qty \in Qtys, ts \in Timestamps :
            LET order == orders[id]
                t == to_tick(px)
                out == modify_order(id, px, qty, ts)
            IN  (t = order.price_tick /\ ~out.panicked) =>
                    /\ DOMAIN out.orders = DOMAIN orders
                    /\ out.orders[id].qty = qty
                    /\ out.best_bid_tick = best_bid_tick
                    /\ out.best_ask_tick = best_ask_tick
                    /\ order.side = "Buy" =>
                        /\ t \in DOMAIN out.bid_depth
                        /\ out.bid_depth[t] = bid_depth[t] + qty - order.qty
                        /\ SameButAt(out.bid_depth, bid_depth, t)
                        /\ out.ask_depth = ask_depth
                        /\ out.ret = Returned("modify_order",
                                              <<"Buy", best_bid_tick, best_bid_tick>>)
                    /\ order.side = "Sell" =>
                        /\ t \in DOMAIN out.ask_depth
                        /\ out.ask_depth[t] = ask_depth[t] + qty - order.qty
                        /\ SameButAt(out.ask_depth, ask_depth, t)
                        /\ out.bid_depth = bid_depth
                        /\ out.ret = Returned("modify_order",
                                              <<"Sell", best_ask_tick, best_ask_tick>>)

\* C17 happens: a modify_order has returned the best ask unchanged with two
\* sell orders of different qty at one tick, which holds the sum of the two.
C17_Witness ==
    /\ ret.op = "modify_order"
    /\ ret.err = "None"
    /\ ret.val = <<"Sell", best_ask_tick, best_ask_tick>>
    /\ \E i, j \in DOMAIN orders :
          /\ orders[i].side = "Sell" /\ orders[j].side = "Sell"
          /\ orders[i].price_tick = orders[j].price_tick
          /\ orders[i].qty # orders[j].qty
          /\ ask_qty_at_tick(orders[i].price_tick) = orders[i].qty + orders[j].qty

\* C19: after L2 clear_depth(side, clear_upto_price), whatever the side, the
\* cached best of each side whose map the call changed is refreshed:
\* best_bid_tick is the maximum remaining bid key or INVALID_MIN, best_ask_tick
\* the minimum remaining ask key or INVALID_MAX; after the neither-side form
\* both maps are empty and the caches are the sentinels.
C19_L2ClearRefreshesChangedSides ==
    ~panicked =>
        \A side \in Sides, clear_upto_price \in Prices :
            LET out == L2_clear_depth(side, clear_upto_price)
            IN  /\ out.bid_depth # bid_depth
                      => out.best_bid_tick = LastKeyOr(out.bid_depth, INVALID_MIN)
                /\ out.ask_depth # ask_depth
                      => out.best_ask_tick = FirstKeyOr(out.ask_depth, INVALID_MAX)
                /\ side = "None" =>
                      /\ out.bid_depth = EmptyMap
                      /\ out.ask_depth = EmptyMap
                      /\ out.best_bid_tick = INVALID_MIN
                      /\ out.best_ask_tick = INVALID_MAX

\* C20: L2 clear_depth(Buy, p), c = to_tick(p), removes exactly the bid levels
\* t with c <= t <= best_bid_tick, leaves the bid levels below c, ask_depth,
\* best_ask_tick and the index as they were, and changes nothing when
\* bid_depth is empty; clear_depth(Sell, p) removes exactly the ask levels t
\* with best_ask_tick <= t <= c, leaves the ask levels above c, bid_depth,
\* best_bid_tick and the index as they were, and changes nothing when ask_depth
\* is empty.
C20_L2ClearRemovesTheRangeOnly ==
    ~panicked =>
        \A clear_upto_price \in Prices :
            LET c == to_tick(clear_upto_price)
                buy == L2_clear_depth("Buy", clear_upto_price)
                sell == L2_clear_depth("Sell", clear_upto_price)
            IN  /\ DOMAIN buy.bid_depth
                      = {t \in DOMAIN bid_depth : ~(c <= t /\ t <= best_bid_tick)}
                /\ \A t \in DOMAIN buy.bid_depth : buy.bid_depth[t] = bid_depth[t]
                /\ buy.ask_depth = ask_depth
                /\ buy.best_ask_tick = best_ask_tick
                /\ buy.orders = orders
                /\ bid_depth = EmptyMap => SameEngine(buy)
                /\ DOMAIN sell.ask_depth
                      = {t \in DOMAIN ask_depth : ~(best_ask_tick <= t /\ t <= c)}
                /\ \A t \in DOMAIN sell.ask_depth : sell.ask_depth[t] = ask_depth[t]
                /\ sell.bid_depth = bid_depth
                /\ sell.best_bid_tick = best_bid_tick
                /\ sell.orders = orders
                /\ ask_depth = EmptyMap => SameEngine(sell)

\* Scenario S5 as the claim gives it: the test's calls without the refused
\* modify_order(10, ..) and without modify_order(2, 500.6, 0.002).
S5AsStated ==
    << AddBuy(1, 5001, 1), AddBuy(2, 5003, 5), AddBuy(3, 5001, 5),
       AddBuy(4, 5005, 5), Modify(2, 5005, 1), Modify(2, 5007, 2),
       Delete(4), Modify(2, 5000, 2) >>

\* Scenario S5 with modify_order(2, 500.6, 0.002) made before delete_order(4),
\* as the test makes it.
S5AsTested ==
    << AddBuy(1, 5001, 1), AddBuy(2, 5003, 5), AddBuy(3, 5001, 5),
       AddBuy(4, 5005, 5), Modify(2, 5005, 1), Modify(2, 5007, 2),
       Modify(2, 5006, 2), Delete(4), Modify(2, 5000, 2) >>

\* The script has been run to its end.
Done(s) == script = s /\ calls = Len(s)

\* C18 as stated: after add_buy_order(1, 500.1, 0.001), (2, 500.3, 0.005),
\* (3, 500.1, 0.005), (4, 500.5, 0.005), modify_order(2, 500.5, 0.001),
\* modify_order(2, 500.7, 0.002) and delete_order(4) on a fresh engine,
\* modify_order(2, 500.0, 0.002) returns (Buy, 5006, 5001) and leaves bid
\* quantity 0.002 at tick 5000.
C18_S5ReturnsPrevBest5006 ==
    Done(S5AsStated) =>
        /\ ret = Returned("modify_order", <<"Buy", 5006, 5001>>)
        /\ bid_qty_at_tick(5000) = lot_size * 2

\* C18 amended: after those calls modify_order(2, 500.0, 0.002) returns
\* (Buy, 5007, 5001) and leaves bid quantity 0.002 at tick 5000, the best bid
\* at 5001 and no level at 5007; it returns (Buy, 5006, 5001) when
\* modify_order(2, 500.6, 0.002) is made before delete_order(4).
C18_S5ReturnsPrevBest5007 ==
    /\ Done(S5AsStated) =>
        /\ ret = Returned("modify_order", <<"Buy", 5007, 5001>>)
        /\ bid_qty_at_tick(5000) = lot_size * 2
        /\ best_bid_tick = 5001
        /\ 5007 \notin DOMAIN bid_depth
    /\ Done(S5AsTested) =>
        /\ ret = Returned("modify_order", <<"Buy", 5006, 5001>>)
        /\ bid_qty_at_tick(5000) = lot_size * 2
        /\ best_bid_tick = 5001
        /\ 5006 \notin DOMAIN bid_depth

\* C18 happens: the scenario has been run to its last call, which moved order
\* 2 down to tick 5000, below orders 1 and 3 at tick 5001.
C18_Witness ==
    /\ Done(S5AsStated)
    /\ ret.op = "modify_order"
    /\ ret.err = "None"
    /\ DOMAIN orders = {1, 2, 3}
    /\ orders[2].price_tick = 5000
    /\ bid_depth = (5000 :> lot_size * 2) @@ (5001 :> lot_size * 6)

\* C21: L3 clear_depth(side) empties the map of the given side, both maps when
\* the side is neither Buy nor Sell, leaves the other side's map as it was, and
\* leaves the index as it was: every order is still in it with its side,
\* price_tick and qty.
C21_L3ClearEmptiesMapsKeepsIndex ==
    ~panicked =>
        \A side \in Sides :
            LET out == L3_clear_depth(side)
            IN  /\ side = "Buy" =>
                      out.bid_depth = EmptyMap /\ out.ask_depth = ask_depth
                /\ side = "Sell" =>
                      out.ask_depth = EmptyMap /\ out.bid_depth = bid_depth
                /\ side = "None" =>
                      out.bid_depth = EmptyMap /\ out.ask_depth = EmptyMap
                /\ DOMAIN out.orders = DOMAIN orders
                /\ \A id \in DOMAIN orders :
                      /\ out.orders[id].side = orders[id].side
                      /\ out.orders[id].price_tick = orders[id].price_tick
                      /\ out.orders[id].qty = orders[id].qty
                /\ ~out.panicked

\* C21 happens: an L3 clear_depth has emptied the bid side under a buy order
\* that is still in the index, and left the ask level of a sell order alone.
C21_Witness ==
    /\ ret.op = "L3_clear_depth"
    /\ bid_depth = EmptyMap
    /\ \E i, j \in DOMAIN orders :
          /\ orders[i].side = "Buy"
          /\ orders[j].side = "Sell"
          /\ orders[j].price_tick \in DOMAIN ask_depth
          /\ ask_depth[orders[j].price_tick] = orders[j].qty

\* The index of engine out is the index with the order of id added and every
\* other order as it was, when the add returned Ok, and the index as it was
\* when it returned Err.
IndexAfterAdd(out, id) ==
    IF out.ret.err = "None"
    THEN /\ id \notin DOMAIN orders
         /\ DOMAIN out.orders = DOMAIN orders \cup {id}
         /\ \A i \in DOMAIN orders : out.orders[i] = orders[i]
    ELSE out.orders = orders

C23_IndexedOrderHasItsLevel ==
    /\ ~panicked
    /\ \A id \in DOMAIN orders :
          /\ orders[id].side = "Buy" => orders[id].price_tick \in DOMAIN bid_depth
          /\ orders[id].side = "Sell" => orders[id].price_tick \in DOMAIN ask_depth
          /\ \A ts \in Timestamps :
                /\ ~delete_order(id, ts).panicked
                /\ \A px \in Prices, qty \in FullQtys :
                      ~modify_order(id, px, qty, ts).panicked

\* C23 happens: a delete_order has taken one of two buy orders off a level,
\* and the level still holds the quantity of the order that stays, which is
\* one unit short of a lot.
C23_Witness ==
    /\ ret.op = "delete_order"
    /\ ret.err = "None"
    /\ ret.val[1] = "Buy"
    /\ \E id \in DOMAIN orders :
          /\ orders[id].side = "Buy"
          /\ orders[id].qty = lot_size - 1
          /\ orders[id].price_tick \in DOMAIN bid_depth
          /\ bid_depth[orders[id].price_tick] = orders[id].qty
          /\ ret.val[2] = orders[id].price_tick
====
